---- MODULE Spec2Model ----
(***************************************************************************)
(* Socratica: the inline function-plot pipeline.                           *)
(*                                                                         *)
(*   MessageBubble.renderContent  splits a message text into prose and     *)
(*                                [PLOT: expression, min, max] directives  *)
(*   MathGraph                    samples the expression, derives the      *)
(*                                view bounds and maps the points to SVG   *)
(*                                                                         *)
(* Strings are sequences of one-character strings, so that the regular     *)
(* expressions, trim, replace and parseFloat are computed character by     *)
(* character.  JavaScript numbers are modelled as exact rationals plus     *)
(* NaN, +Infinity and -Infinity (IEEE rounding and the sign of zero are    *)
(* not modelled).  mathjs is an external library: MathParse and Evaluate   *)
(* model its documented behaviour on the expressions the inputs use.       *)
(***************************************************************************)
EXTENDS Integers, Sequences, FiniteSets, TLC

VARIABLES text, isDeepDiveContext, pc, out, rng, props, graph,
          state, inputText, imagePreview, showExamples, keyError, requests

vars ==
    <<text, isDeepDiveContext, pc, out, rng, props, graph,
      state, inputText, imagePreview, showExamples, keyError, requests>>

-----------------------------------------------------------------------------------------------------------------------------------------------------
(* JavaScript numbers                                                      *)

RECURSIVE GCD(_, _)
GCD(a, b) == IF b = 0 THEN a ELSE GCD(b, a % b)

Abs(n) == IF n < 0 THEN -n ELSE n

\* n/d divided through by g, with a positive denominator
Reduced(n, d, g) ==
    IF d < 0
    THEN [t |-> "num", n |-> (-n) \div g, d |-> (-d) \div g]
    ELSE [t |-> "num", n |-> n \div g, d |-> d \div g]

\* the finite number n/d, in lowest terms with a positive denominator
Num(n, d) == Reduced(n, d, GCD(Abs(n), Abs(d)))

Whole(n) == [t |-> "num", n |-> n, d |-> 1]

NaN == [t |-> "nan", n |-> 0, d |-> 1]
PInf == [t |-> "inf", n |-> 1, d |-> 1]
NInf == [t |-> "inf", n |-> -1, d |-> 1]
\* a value whose typeof is not 'number' (a Complex, a boolean, undefined)
NonNumber == [t |-> "other", n |-> 0, d |-> 1]
True == [t |-> "bool", n |-> 1, d |-> 1]
False == [t |-> "bool", n |-> 0, d |-> 1]
\* the evaluation threw instead of returning a value
Thrown == [t |-> "throw", n |-> 0, d |-> 1]

IsNum(a) == a.t = "num"
IsInf(a) == a.t = "inf"
IsNaNv(a) == a.t = "nan"
\* typeof y === 'number'
IsNumberType(a) == a.t \in {"num", "inf", "nan"}

Sign(a) == IF a.n > 0 THEN 1 ELSE IF a.n < 0 THEN -1 ELSE 0

Neg(a) == IF a.t \in {"num", "inf"} THEN [a EXCEPT !.n = -a.n] ELSE a

\* the sum of two finite numbers over the common denominator a.d * b.d / g
AddOver(a, b, g) ==
    Num(a.n * (b.d \div g) + b.n * (a.d \div g), (a.d \div g) * b.d)

Add(a, b) ==
    CASE IsNaNv(a) \/ IsNaNv(b) -> NaN
      [] IsInf(a) /\ IsInf(b) -> IF a.n = b.n THEN a ELSE NaN
      [] IsInf(a) -> a
      [] IsInf(b) -> b
      [] OTHER -> AddOver(a, b, GCD(a.d, b.d))

Sub(a, b) == Add(a, Neg(b))

\* the product of two finite numbers, cancelling g1 = gcd(a.n, b.d) and
\* g2 = gcd(b.n, a.d) first
MulCancel(a, b, g1, g2) ==
    Num((a.n \div g1) * (b.n \div g2), (a.d \div g2) * (b.d \div g1))

Mul(a, b) ==
    CASE IsNaNv(a) \/ IsNaNv(b) -> NaN
      [] IsInf(a) \/ IsInf(b) ->
            IF Sign(a) * Sign(b) = 0 THEN NaN
            ELSE IF Sign(a) * Sign(b) > 0 THEN PInf ELSE NInf
      [] OTHER -> MulCancel(a, b, GCD(Abs(a.n), b.d), GCD(Abs(b.n), a.d))

Div(a, b) ==
    CASE IsNaNv(a) \/ IsNaNv(b) -> NaN
      [] IsInf(a) /\ IsInf(b) -> NaN
      [] IsInf(a) -> IF Sign(b) < 0 THEN Neg(a) ELSE a
      [] IsInf(b) -> Whole(0)
      [] b.n = 0 -> IF a.n = 0 THEN NaN ELSE IF a.n > 0 THEN PInf ELSE NInf
      [] OTHER -> Mul(a, Num(b.d, b.n))

\* a < b for two finite numbers, g = gcd(a.d, b.d)
LtOver(a, b, g) == a.n * (b.d \div g) < b.n * (a.d \div g)

\* a < b; false when either side is NaN
Lt(a, b) ==
    CASE IsNaNv(a) \/ IsNaNv(b) -> FALSE
      [] IsInf(a) /\ IsInf(b) -> a.n < b.n
      [] IsInf(a) -> a.n < 0
      [] IsInf(b) -> b.n > 0
      [] OTHER -> LtOver(a, b, GCD(a.d, b.d))

Le(a, b) == ~IsNaNv(a) /\ ~IsNaNv(b) /\ ~Lt(b, a)

\* Math.min / Math.max of two numbers: NaN when either is NaN
Min2(a, b) == IF IsNaNv(a) \/ IsNaNv(b) THEN NaN ELSE IF Lt(b, a) THEN b ELSE a
Max2(a, b) == IF IsNaNv(a) \/ IsNaNv(b) THEN NaN ELSE IF Lt(a, b) THEN b ELSE a

\* Math.min(...s) and Math.max(...s) of a non-empty argument list, folded by
\* halves (Min2 and Max2 are associative)
RECURSIVE MinRange(_, _, _)
MinRange(s, lo, hi) ==
    IF lo = hi THEN s[lo]
    ELSE Min2(MinRange(s, lo, (lo + hi) \div 2),
              MinRange(s, (lo + hi) \div 2 + 1, hi))

RECURSIVE MaxRange(_, _, _)
MaxRange(s, lo, hi) ==
    IF lo = hi THEN s[lo]
    ELSE Max2(MaxRange(s, lo, (lo + hi) \div 2),
              MaxRange(s, (lo + hi) \div 2 + 1, hi))

MathMin(s) == MinRange(s, 1, Len(s))
MathMax(s) == MaxRange(s, 1, Len(s))

-----------------------------------------------------------------------------
(* JavaScript strings                                                      *)

WhiteSpace == {" ", "\t", "\n"}
Digits == {"0", "1", "2", "3", "4", "5", "6", "7", "8", "9"}

DigitVal(c) ==
    CASE c = "0" -> 0 [] c = "1" -> 1 [] c = "2" -> 2 [] c = "3" -> 3
      [] c = "4" -> 4 [] c = "5" -> 5 [] c = "6" -> 6 [] c = "7" -> 7
      [] c = "8" -> 8 [] c = "9" -> 9

\* does s hold the characters of lit starting at position p
StartsAt(s, p, lit) ==
    /\ p + Len(lit) - 1 <= Len(s)
    /\ \A k \in 1..Len(lit) : s[p + k - 1] = lit[k]

\* the length of the longest prefix of s made of characters of set
RECURSIVE Span(_, _)
Span(s, set) == IF s = <<>> \/ s[1] \notin set THEN 0 ELSE 1 + Span(Tail(s), set)

\* the length of the longest suffix of s made of characters of set
RECURSIVE SpanEnd(_, _)
SpanEnd(s, set) ==
    IF s = <<>> \/ s[Len(s)] \notin set THEN 0
    ELSE 1 + SpanEnd(SubSeq(s, 1, Len(s) - 1), set)

\* String.prototype.trim
Trim(s) == SubSeq(s, Span(s, WhiteSpace) + 1, Len(s) - SpanEnd(s, WhiteSpace))

\* s.replace(/lit/g, by) for a literal pattern
RECURSIVE ReplaceAll(_, _, _)
ReplaceAll(s, lit, by) ==
    IF s = <<>> THEN <<>>
    ELSE IF StartsAt(s, 1, lit)
         THEN by \o ReplaceAll(SubSeq(s, Len(lit) + 1, Len(s)), lit, by)
         ELSE <<s[1]>> \o ReplaceAll(Tail(s), lit, by)

RECURSIVE DigitsValue(_)
DigitsValue(s) ==
    IF s = <<>> THEN 0 ELSE DigitsValue(SubSeq(s, 1, Len(s) - 1)) * 10 + DigitVal(s[Len(s)])

RECURSIVE Pow10(_)
Pow10(k) == IF k = 0 THEN 1 ELSE 10 * Pow10(k - 1)

\* the value of the digit strings ip "." fp, NaN when both are empty
Decimal(ip, fp) ==
    IF Len(ip) + Len(fp) = 0 THEN NaN
    ELSE Num(DigitsValue(ip) * Pow10(Len(fp)) + DigitsValue(fp), Pow10(Len(fp)))

\* the digits that follow a decimal point at the head of s
FractionDigits(s) ==
    IF s # <<>> /\ s[1] = "." THEN SubSeq(s, 2, 1 + Span(Tail(s), Digits)) ELSE <<>>

\* the longest prefix of s of the form digits [. digits], converted
UnsignedPrefix(s, ni) ==
    Decimal(SubSeq(s, 1, ni), FractionDigits(SubSeq(s, ni + 1, Len(s))))

SignedPrefix(s) ==
    IF s # <<>> /\ s[1] = "-" THEN Neg(UnsignedPrefix(Tail(s), Span(Tail(s), Digits)))
    ELSE IF s # <<>> /\ s[1] = "+" THEN UnsignedPrefix(Tail(s), Span(Tail(s), Digits))
    ELSE UnsignedPrefix(s, Span(s, Digits))

\* parseFloat: leading white space is skipped, then the longest prefix of the
\* form [+-] digits [. digits] is converted; NaN when that prefix has no digit.
\* (Exponents and the literal Infinity do not occur in the inputs.)
ParseFloat(s) == SignedPrefix(SubSeq(s, Span(s, WhiteSpace) + 1, Len(s)))

-----------------------------------------------------------------------------
(* renderContent: the two regular expressions                               *)

PlotOpen == <<"[", "P", "L", "O", "T", ":">>

\* the position of the first c at or after position from, 0 when there is none
RECURSIVE IndexFrom(_, _, _)
IndexFrom(s, c, from) ==
    IF from > Len(s) THEN 0
    ELSE IF s[from] = c THEN from ELSE IndexFrom(s, c, from + 1)

\* /\[PLOT:\s*[^\]]+\]/ matched at position p: the position of the closing
\* bracket, 0 when there is no match at p.  At least one character other
\* than ']' must follow the colon.
SplitMatchEnd(s, p) ==
    IF /\ StartsAt(s, p, PlotOpen)
       /\ p + 6 <= Len(s)
       /\ s[p + 6] # "]"
    THEN IndexFrom(s, "]", p + 7)
    ELSE 0

\* the leftmost position at or after from where the split pattern matches
RECURSIVE SplitFind(_, _)
SplitFind(s, from) ==
    IF from > Len(s) THEN 0
    ELSE IF SplitMatchEnd(s, from) # 0 THEN from ELSE SplitFind(s, from + 1)

\* text.split(/(\[PLOT:\s*[^\]]+\])/): the pieces between the matches and,
\* because of the capture group, the matches themselves, in order
RECURSIVE Split(_)
RECURSIVE SplitAt(_, _, _)
SplitAt(s, p, q) ==
    IF p = 0 THEN <<s>>
    ELSE <<SubSeq(s, 1, p - 1), SubSeq(s, p, q)>> \o Split(SubSeq(s, q + 1, Len(s)))

SplitFirst(s, p) == SplitAt(s, p, IF p = 0 THEN 0 ELSE SplitMatchEnd(s, p))

Split(s) == SplitFirst(s, SplitFind(s, 1))

\* parts.filter(Boolean): the empty strings are dropped
FilterBoolean(parts) == SelectSeq(parts, LAMBDA x : x # <<>>)

\* the pieces of s between commas
RECURSIVE Fields(_)
FieldsAt(s, c) ==
    IF c = 0 THEN <<s>>
    ELSE <<SubSeq(s, 1, c - 1)>> \o Fields(SubSeq(s, c + 1, Len(s)))

Fields(s) == FieldsAt(s, IndexFrom(s, ",", 1))

\* what \s*([^,\]]+) captures of one field: the field without its leading
\* white space, or its last character when it is white space only
CaptureFrom(f, w) ==
    IF w = Len(f) THEN SubSeq(f, Len(f), Len(f)) ELSE SubSeq(f, w + 1, Len(f))

Capture(f) == CaptureFrom(f, Span(f, WhiteSpace))

NoMatch == [found |-> FALSE, n |-> 0, g1 |-> <<>>, g2 |-> <<>>, g3 |-> <<>>]

\* the groups of a match whose fields are fs: one to three fields, none empty
Groups(fs) ==
    IF Len(fs) > 3 \/ \E k \in 1..Len(fs) : fs[k] = <<>>
    THEN NoMatch
    ELSE [found |-> TRUE, n |-> Len(fs),
          g1 |-> Capture(fs[1]),
          g2 |-> IF Len(fs) >= 2 THEN Capture(fs[2]) ELSE <<>>,
          g3 |-> IF Len(fs) >= 3 THEN Capture(fs[3]) ELSE <<>>]

\* the match that starts at p and ends at the bracket at q (none when q = 0)
MatchUpTo(s, p, q) ==
    IF q = 0 THEN NoMatch ELSE Groups(Fields(SubSeq(s, p + 6, q - 1)))

\* /\[PLOT:\s*([^,\]]+)(?:,\s*([^,\]]+))?(?:,\s*([^,\]]+))?\]/ at position p.
\* No part of the pattern before the final \] consumes ']', so the match ends
\* at the first ']' after the colon; what lies between is one to three
\* non-empty comma-separated fields.  n is the number of groups that took part.
MatchAt(s, p) ==
    IF ~StartsAt(s, p, PlotOpen) THEN NoMatch
    ELSE MatchUpTo(s, p, IndexFrom(s, "]", p + 6))

\* part.match(...): the leftmost match, null (found = FALSE) when none
RECURSIVE MatchFrom(_, _)
FirstMatch(s, p, m) == IF m.found THEN m ELSE MatchFrom(s, p + 1)

MatchFrom(s, p) == IF p > Len(s) THEN NoMatch ELSE FirstMatch(s, p, MatchAt(s, p))

PlotMatch(part) == MatchFrom(part, 1)

-----
(* mathjs, as MathGraph uses it: parse, compile, evaluate({x})              *)

ExprX == <<"x">>
ExprSquare == <<"x", "^", "2">>
ExprSquareParen == <<"x", "^", "(", "2", ")">>
ExprSquareBrace == <<"x", "^", "{", "2", "}">>
ExprInverse == <<"1", "/", "x">>
ExprTwo == <<"2">>
ExprTwenty == <<"2", "0">>
ExprMinusTwenty == <<"-", "2", "0">>
ExprDouble == <<"2", "*", " ", "x">>
ExprDoubleCdot == <<"2", "\\", "c", "d", "o", "t", " ", "x">>
ExprDoubleTimes == <<"2", "\\", "t", "i", "m", "e", "s", " ", "x">>
ExprNonReal == <<"s", "q", "r", "t", "(", "-", "1", "-", "x", "^", "2", ")">>
ExprSymbol == <<"y">>
ExprCond == <<"x", ">", "0", "?", "1", ":", "y">>
ExprAtZero == <<"x", "=", "=", "0", "?", "1", ":", "y">>
ExprBad == <<"x", " ", "+", "*", " ", "2">>
ExprEmpty == <<>>
ExprRandom == <<"r", "a", "n", "d", "o", "m", "(", ")">>

\* expression trees
NodeX == [op |-> "x"]
NodeConst(v) == [op |-> "const", v |-> v]
NodeUndefined == [op |-> "undefined"]
NodeSymbol == [op |-> "symbol"]
NodeBin(o, a, b) == [op |-> o, a |-> a, b |-> b]
NodeFn(o, a) == [op |-> o, a |-> a]
NodeCond(c, a, b) == [op |-> "cond", c |-> c, a |-> a, b |-> b]
NodeRandom == [op |-> "random"]

ParseOk(node) == [ok |-> TRUE, node |-> node, msg |-> ""]
ParseError(msg) == [ok |-> FALSE, node |-> NodeUndefined, msg |-> msg]

\* math.parse(cleanExpr).compile(): the tree of an expression mathjs accepts
\* (the empty string parses to the constant undefined), or the SyntaxError
\* it throws.  A backslash and a brace are not mathjs syntax.
MathParse(s) ==
    CASE s = ExprX -> ParseOk(NodeX)
      [] s = ExprSquare -> ParseOk(NodeBin("pow", NodeX, NodeConst(Whole(2))))
      [] s = ExprSquareParen -> ParseOk(NodeBin("pow", NodeX, NodeConst(Whole(2))))
      [] s = ExprInverse -> ParseOk(NodeBin("div", NodeConst(Whole(1)), NodeX))
      [] s = ExprTwo -> ParseOk(NodeConst(Whole(2)))
      [] s = ExprTwenty -> ParseOk(NodeConst(Whole(20)))
      [] s = ExprMinusTwenty -> ParseOk(NodeFn("neg", NodeConst(Whole(20))))
      [] s = ExprDouble -> ParseOk(NodeBin("mul", NodeConst(Whole(2)), NodeX))
      [] s = ExprNonReal ->
            ParseOk(NodeFn("sqrt",
                NodeBin("sub", NodeFn("neg", NodeConst(Whole(1))),
                        NodeBin("pow", NodeX, NodeConst(Whole(2))))))
      [] s = ExprSymbol -> ParseOk(NodeSymbol)
      [] s = ExprCond ->
            ParseOk(NodeCond(NodeBin("larger", NodeX, NodeConst(Whole(0))),
                             NodeConst(Whole(1)), NodeSymbol))
      [] s = ExprAtZero ->
            ParseOk(NodeCond(NodeBin("equal", NodeX, NodeConst(Whole(0))),
                             NodeConst(Whole(1)), NodeSymbol))
      [] s = ExprEmpty -> ParseOk(NodeUndefined)
      [] s = ExprRandom -> ParseOk(NodeRandom)
      [] s = ExprBad -> ParseError("Value expected (char 4)")
      [] OTHER -> ParseError("Syntax error")

\* a is a number: a^2
Square(a) == Mul(a, a)

\* sqrt of a number: a Complex for a negative argument and for NaN (mathjs
\* tests x >= 0); the expressions above take no root of a positive number
Sqrt(a) ==
    IF IsNum(a) /\ a.n = 0 THEN a
    ELSE IF a = PInf THEN PInf
    ELSE NonNumber

\* a one-argument operation on an evaluated argument
EvalUnary(op, a) ==
    IF a = Thrown THEN Thrown
    ELSE IF ~IsNumberType(a) THEN NonNumber
    ELSE IF op = "neg" THEN Neg(a) ELSE Sqrt(a)

\* a two-argument operation on evaluated arguments
EvalBinary(op, a, b) ==
    IF a = Thrown \/ b = Thrown THEN Thrown
    ELSE IF ~IsNumberType(a) \/ ~IsNumberType(b) THEN NonNumber
    ELSE CASE op = "add" -> Add(a, b)
           [] op = "sub" -> Sub(a, b)
           [] op = "mul" -> Mul(a, b)
           [] op = "div" -> Div(a, b)
           [] op = "pow" -> Square(a)
           [] op = "larger" -> IF Lt(b, a) THEN True ELSE False
           [] op = "equal" -> IF ~IsNaNv(a) /\ a = b THEN True ELSE False

\* code.evaluate({x}): the value, or Thrown.  An undefined symbol throws when
\* it is evaluated; a conditional evaluates only the branch it takes.
RECURSIVE Evaluate(_, _)
EvalCond(node, x, c) ==
    IF c = Thrown THEN Thrown
    ELSE IF c = True THEN Evaluate(node.a, x)
    ELSE Evaluate(node.b, x)

Evaluate(node, x) ==
    CASE node.op = "x" -> x
      [] node.op = "const" -> node.v
      [] node.op = "undefined" -> NonNumber
      [] node.op = "symbol" -> Thrown
      [] node.op = "cond" -> EvalCond(node, x, Evaluate(node.c, x))
      [] node.op \in {"neg", "sqrt"} -> EvalUnary(node.op, Evaluate(node.a, x))
      [] OTHER -> EvalBinary(node.op, Evaluate(node.a, x), Evaluate(node.b, x))

\* mathjs random() draws from a generator that every call advances and that
\* all evaluations share.  The generator is modelled by its position g on a
\* cycle of RandomPeriod values in (0, 1).
RandomPeriod == 2

RandomValue(g) == Num(2 * (g % RandomPeriod) + 1, 2 * RandomPeriod)

\* the number of calls of random() one evaluation of the code makes; of the
\* expressions above only random() itself calls it
Calls(node) == IF node.op = "random" THEN 1 ELSE 0

\* the code as one evaluation runs it: random() returns r
Drawn(node, r) == IF node.op = "random" THEN NodeConst(r) ELSE node

-----
(* MathGraph                                                                *)

steps == 150
width == 400
height == 250
padding == 30

\* the default value of the range prop, and of a bound renderContent omits
DefaultMin == Whole(-5)

\* another default for the upper bound
DefaultMax_Ten == Whole(10)

DefaultMax == Whole(5)

\* a JavaScript value that is null or a string
Null == [null |-> TRUE, msg |-> ""]
Str(m) == [null |-> FALSE, msg |-> m]
Truthy(e) == ~e.null /\ e.msg # ""

\* Clean without the two replacements of braces
Clean_KeepsBraces(expression) ==
    ReplaceAll(
        ReplaceAll(expression, <<"\\", "c", "d", "o", "t">>, <<"*">>),
        <<"\\", "t", "i", "m", "e", "s">>, <<"*">>)

\* the four replace calls that turn LaTeX notation into mathjs syntax
Clean(expression) ==
    ReplaceAll(
        ReplaceAll(
            ReplaceAll(
                ReplaceAll(expression, <<"\\", "c", "d", "o", "t">>, <<"*">>),
                <<"\\", "t", "i", "m", "e", "s">>, <<"*">>),
            <<"{">>, <<"(">>),
        <<"}">>, <<")">>)

\* the x of sample i
SampleX(minX, stepSize, i) == Add(minX, Mul(Whole(i), stepSize))

\* typeof y === 'number' && !isNaN(y) && isFinite(y)
IsFiniteNumber(y) == IsNumberType(y) /\ ~IsNaNv(y) /\ y.t # "inf"

\* Pushed without the isFinite test
Pushed_NoFiniteCheck(y) == y # Thrown /\ IsNumberType(y) /\ ~IsNaNv(y)

\* what the loop body does with the value of one sample: the point is pushed
\* when the value is a finite number; a throw is caught and the sample skipped
Pushed(y) == y # Thrown /\ IsFiniteNumber(y)

\* sample i: its x and the value there
Sample(code, x) == [x |-> x, y |-> Evaluate(code, x)]

\* for (let i = 0; i <= steps; i++): sample i is evaluated at SampleX(i),
\* whatever the earlier samples gave; g is the position of the random
\* generator when the loop starts
Samples(code, minX, stepSize, g) ==
    [k \in 1..(steps + 1) |->
        Sample(Drawn(code, RandomValue(g + (k - 1) * Calls(code))),
               SampleX(minX, stepSize, k - 1))]

\* what the loop leaves: points holds the pushed samples in the order of the
\* loop, xs the arguments evaluate was called with, calls the number of
\* values drawn from the random generator
Collected(all, calls) ==
    [points |-> SelectSeq(all, LAMBDA p : Pushed(p.y)),
     xs |-> [k \in 1..Len(all) |-> all[k].x],
     calls |-> calls]

SampleLoop(code, minX, stepSize, g) ==
    Collected(Samples(code, minX, stepSize, g), (steps + 1) * Calls(code))

\* the part of the try body after parse: threw = TRUE when parse or compile
\* threw, with the message of the error
AfterParse(parsed, minX, stepSize, g) ==
    IF ~parsed.ok
    THEN [threw |-> TRUE, msg |-> parsed.msg,
          data |-> [points |-> <<>>, xs |-> <<>>, calls |-> 0]]
    ELSE [threw |-> FALSE, msg |-> "",
          data |-> SampleLoop(parsed.node, minX, stepSize, g)]

\* the body of the outer try: clean, parse, compile, sample
MemoBody(expression, range, g) ==
    AfterParse(MathParse(Clean(expression)), range[1],
               Div(Sub(range[2], range[1]), Whole(steps)), g)

\* a catch that drops the message
Caught_SwallowsError(r) ==
    [threw |-> FALSE, points |-> r.data.points, error |-> Null,
     xs |-> r.data.xs, calls |-> r.data.calls]

\* no catch at all: the exception leaves the callback
Caught_Not(r) ==
    [threw |-> r.threw, points |-> r.data.points, error |-> Null,
     xs |-> r.data.xs, calls |-> r.data.calls]

\* return {points, error: null} / catch (err) { return {points: [], error} }
Caught(r) ==
    IF r.threw
    THEN [threw |-> FALSE, points |-> <<>>, error |-> Str(r.msg), xs |-> <<>>,
          calls |-> 0]
    ELSE [threw |-> FALSE, points |-> r.data.points, error |-> Null,
          xs |-> r.data.xs, calls |-> r.data.calls]

\* the useMemo callback: try { ... } catch (err) { ... }
ComputeData(expression, range, g) == Caught(MemoBody(expression, range, g))

Ys(points) == [k \in 1..Len(points) |-> points[k].y]

\* MinY without the lower clamp
MinY_NoClamp(allY) == MathMin(Append(allY, Whole(-1)))

\* Math.max(Math.min(...allY, -1), -15)
MinY(allY) == Max2(MathMin(Append(allY, Whole(-1))), Whole(-15))

\* MaxY without the 1 that keeps the window above zero
MaxY_NoFloor(allY) == Min2(MathMax(allY), Whole(15))

\* Math.min(Math.max(...allY, 1), 15)
MaxY(allY) == Min2(MathMax(Append(allY, Whole(1))), Whole(15))

mapX(x, minX, maxX) ==
    Add(Whole(padding),
        Mul(Div(Sub(x, minX), Sub(maxX, minX)), Whole(width - 2 * padding)))

\* Math.max(minY, Math.min(maxY, y))
ClampedY(y, minY, maxY) == Max2(minY, Min2(maxY, y))

\* MapClamped with y growing downwards
MapClamped_NotInverted(clampedY, minY, maxY) ==
    Add(Whole(padding),
        Mul(Div(Sub(clampedY, minY), Sub(maxY, minY)),
            Whole(height - 2 * padding)))

\* the rest of mapY, on the clamped y
MapClamped(clampedY, minY, maxY) ==
    Sub(Whole(height - padding),
        Mul(Div(Sub(clampedY, minY), Sub(maxY, minY)),
            Whole(height - 2 * padding)))

mapY(y, minY, maxY) == MapClamped(ClampedY(y, minY, maxY), minY, maxY)

\* PathData with a move command for every point
PathData_MoveEach(points, minX, maxX, minY, maxY) ==
    [k \in 1..Len(points) |->
        [cmd |-> "M",
         x |-> mapX(points[k].x, minX, maxX),
         y |-> mapY(points[k].y, minY, maxY)]]

\* data.points.reduce(...): one command per point, 'M' for the first
PathData(points, minX, maxX, minY, maxY) ==
    [k \in 1..Len(points) |->
        [cmd |-> IF k = 1 THEN "M" ELSE "L",
         x |-> mapX(points[k].x, minX, maxX),
         y |-> mapY(points[k].y, minY, maxY)]]

Line(x1, y1, x2, y2) == [x1 |-> x1, y1 |-> y1, x2 |-> x2, y2 |-> y2]

NoLine == Line(NaN, NaN, NaN, NaN)

\* the two dashed <line> elements: the horizontal guide at y = 0 and the
\* vertical guide at x = 0
Axes(minX, maxX, minY, maxY) ==
    [horizontal |-> Line(mapX(minX, minX, maxX), mapY(Whole(0), minY, maxY),
                         mapX(maxX, minX, maxX), mapY(Whole(0), minY, maxY)),
     vertical |-> Line(mapX(Whole(0), minX, maxX), mapY(minY, minY, maxY),
                       mapX(Whole(0), minX, maxX), mapY(maxY, minY, maxY))]

NoAxes == [horizontal |-> NoLine, vertical |-> NoLine]

\* Outcome without the test of data.error
Outcome_NoErrorCheck(data) ==
    IF Len(data.points) < 2 THEN "nothing" ELSE "chart"

\* Outcome without the test of data.points.length
Outcome_NoLengthCheck(data) ==
    IF Truthy(data.error) THEN "error" ELSE "chart"

\* which of the three returns is taken
Outcome(data) ==
    IF Truthy(data.error) THEN "error"
    ELSE IF Len(data.points) < 2 THEN "nothing"
    ELSE "chart"

\* what the component returns and the data it computed.  kind is "error"
\* (the red panel showing message), "nothing" (null), "chart", or "throw"
\* when an exception leaves the component.
View(kind, data, minY, maxY, path, axes, expression, color) ==
    [kind |-> kind,
     message |-> IF kind = "error" THEN data.error.msg ELSE "",
     points |-> data.points,
     error |-> data.error,
     xs |-> data.xs,
     calls |-> data.calls,
     minY |-> minY,
     maxY |-> maxY,
     path |-> path,
     axes |-> axes,
     label |-> expression,
     color |-> color]

\* ChartView with a path that depends on the colour
ChartView_ColourInPath(data, minY, maxY, expression, range, color) ==
    View("chart", data, minY, maxY,
         IF color = "#a855f7" THEN <<>>
         ELSE PathData(data.points, range[1], range[2], minY, maxY),
         Axes(range[1], range[2], minY, maxY),
         expression, color)

\* the chart: the view bounds, the path of the polyline and the guide lines
ChartView(data, minY, maxY, expression, range, color) ==
    View("chart", data, minY, maxY,
         PathData(data.points, range[1], range[2], minY, maxY),
         Axes(range[1], range[2], minY, maxY),
         expression, color)

\* the returns of the component, by outcome
Returned(kind, data, expression, range, color) ==
    IF kind = "chart"
    THEN ChartView(data, MinY(Ys(data.points)), MaxY(Ys(data.points)),
                   expression, range, color)
    ELSE View(kind, data, NaN, NaN, <<>>, NoAxes, expression, color)

\* the component body after useMemo
Rendering(data, expression, range, color) ==
    IF data.threw
    THEN View("throw", data, NaN, NaN, <<>>, NoAxes, expression, color)
    ELSE Returned(Outcome(data), data, expression, range, color)

\* one invocation of the component with the random generator at g
MathGraph(expression, range, color, g) ==
    Rendering(ComputeData(expression, range, g), expression, range, color)

\* a prop the parent passes, or leaves out
Given(v) == [given |-> TRUE, v |-> v]
Omitted == [given |-> FALSE]

\* ({expression, range = [-5, 5], color = '#6366f1'}) => ...: an omitted prop
\* takes its default
MathGraphElement(p, g) ==
    MathGraph(p.expression,
              IF p.range.given THEN p.range.v ELSE <<DefaultMin, DefaultMax>>,
              IF p.color.given THEN p.color.v ELSE "#6366f1",
              g)

-----------------------------------------------------------------------------
(* MessageBubble.renderContent                                              *)

ColorDeepDive == "#a855f7"
ColorNormal == "#6366f1"

NoView ==
    [kind |-> "markdown", message |-> "", points |-> <<>>, error |-> Null,
     xs |-> <<>>, calls |-> 0, minY |-> NaN, maxY |-> NaN, path |-> <<>>,
     axes |-> NoAxes, label |-> <<>>, color |-> ""]

\* <MathGraph expression={expr} range={[min, max]} color={...} />
PlotSegment(part, plotMatch, expr, range, color, g) ==
    [type |-> "plot", part |-> part, groups |-> plotMatch,
     expression |-> expr, range |-> range,
     view |-> MathGraph(expr, range, color, g)]

\* <ReactMarkdown>{part}</ReactMarkdown>
MarkdownSegment(part) ==
    [type |-> "markdown", part |-> part, groups |-> NoMatch,
     expression |-> <<>>, range |-> <<NaN, NaN>>, view |-> NoView]

\* the body of the map callback, given the result of part.match
RenderMatched(part, plotMatch, deepDive, g) ==
    IF plotMatch.found
    THEN PlotSegment(part, plotMatch, Trim(plotMatch.g1),
             <<IF plotMatch.n >= 2 THEN ParseFloat(plotMatch.g2) ELSE DefaultMin,
               IF plotMatch.n >= 3 THEN ParseFloat(plotMatch.g3) ELSE DefaultMax>>,
             IF deepDive THEN ColorDeepDive ELSE ColorNormal, g)
    ELSE MarkdownSegment(part)

\* the callback of parts.filter(Boolean).map: a MathGraph for a part the
\* directive pattern matches, the markdown renderer for any other part
RenderPart(part, deepDive, g) ==
    RenderMatched(part, PlotMatch(part), deepDive, g)

RECURSIVE TotalCalls(_, _)
TotalCalls(segs, i) ==
    IF i > Len(segs) THEN 0 ELSE segs[i].view.calls + TotalCalls(segs, i + 1)

\* the value of the call: threw = TRUE when an exception left a segment, and
\* then nothing is rendered; calls is the number of values the segments drew
\* from the random generator
Propagated(segs) ==
    IF \E i \in 1..Len(segs) : segs[i].view.kind = "throw"
    THEN [threw |-> TRUE, segs |-> <<>>, calls |-> TotalCalls(segs, 1)]
    ELSE [threw |-> FALSE, segs |-> segs, calls |-> TotalCalls(segs, 1)]

\* the segments from part i on, rendered in order: each MathGraph finds the
\* generator where the segments before it left it
RECURSIVE RenderFrom(_, _, _, _)
RenderRest(parts, i, deepDive, g, seg) ==
    <<seg>> \o RenderFrom(parts, i + 1, deepDive, g + seg.view.calls)

RenderFrom(parts, i, deepDive, g) ==
    IF i > Len(parts) THEN <<>>
    ELSE RenderRest(parts, i, deepDive, g, RenderPart(parts[i], deepDive, g))

RenderParts(parts, deepDive, g) == Propagated(RenderFrom(parts, 1, deepDive, g))

\* renderContent(text): the rendered segments in order
RenderContent(txt, deepDive, g) ==
    RenderParts(FilterBoolean(Split(txt)), deepDive, g)

-----
(* The message texts the model renders                                      *)

\* range bounds written in a directive run over -MaxAbsBound..MaxAbsBound
MaxAbsBound == 2
\* a text holds at most MaxPlots directives
MaxPlots == 2

DigitChar(k) ==
    CASE k = 0 -> "0" [] k = 1 -> "1" [] k = 2 -> "2" [] k = 3 -> "3"
      [] k = 4 -> "4" [] k = 5 -> "5" [] k = 6 -> "6" [] k = 7 -> "7"
      [] k = 8 -> "8" [] k = 9 -> "9"

NumStr(k) == IF k < 0 THEN <<"-", DigitChar(-k)>> ELSE <<DigitChar(k)>>

\* the second and third fields: integers, a decimal, and fields that are no
\* number
BoundFields ==
    {NumStr(k) : k \in -MaxAbsBound..MaxAbsBound}
        \cup {<<"0", ".", "5">>, <<"a", "b">>}

\* the expressions rendered over every range
RangeExpressions == {ExprX, ExprSquareBrace, ExprInverse, ExprTwo, ExprAtZero}

\* the expressions rendered over a few ranges
OtherExpressions ==
    {ExprSquare, ExprTwenty, ExprMinusTwenty, ExprDoubleCdot, ExprDoubleTimes,
     ExprNonReal, ExprSymbol, ExprCond, ExprBad, <<" ">>}

Directive(e, fs) ==
    PlotOpen \o <<" ">> \o e
        \o (IF Len(fs) >= 1 THEN <<",", " ">> \o fs[1] ELSE <<>>)
        \o (IF Len(fs) >= 2 THEN <<",", " ">> \o fs[2] ELSE <<>>)
        \o <<"]">>

FieldLists ==
    {<<>>} \cup {<<f>> : f \in BoundFields}
           \cup {<<f, g>> : f \in BoundFields, g \in BoundFields}

FewFieldLists ==
    {<<>>, <<NumStr(-1), NumStr(1)>>, <<NumStr(1), NumStr(1)>>, <<<<"a", "b">>>>}

\* a text that is one directive
SingleTexts ==
    {Directive(e, fs) : e \in RangeExpressions, fs \in FieldLists}
        \cup {Directive(e, fs) : e \in OtherExpressions, fs \in FewFieldLists}

\* directives that do not match the directive pattern, or only in part
OddTexts ==
    {PlotOpen \o <<"]">>,
     PlotOpen \o <<" ", "]">>,
     PlotOpen \o <<"x", "]">>,
     PlotOpen \o <<" ", "x", ",", "]">>,
     PlotOpen \o <<" ", "x", ",", "1", ",", "2", ",", "3", "]">>,
     PlotOpen \o <<" ", ",", "1", ",", "2", "]">>,
     PlotOpen \o <<" ", "x">>,
     Directive(ExprTwo, <<<<" ">>>>),
     Directive(ExprTwo, <<NumStr(0), <<" ">>>>),
     <<"h", "i">>}

\* the directives that texts of several segments are made of
MixDirectives ==
    {Directive(ExprSquare, <<>>),
     Directive(ExprBad, <<>>),
     Directive(ExprNonReal, <<>>),
     Directive(ExprTwo, <<NumStr(1), NumStr(1)>>),
     PlotOpen \o <<" ", "x", ",", "1", ",", "2", ",", "3", "]">>}

Prose == <<"s", "e", "e", " ">>

RECURSIVE MixTexts(_)
MixTexts(k) ==
    IF k = 0 THEN {<<>>}
    ELSE {Prose \o d \o t : d \in MixDirectives, t \in MixTexts(k - 1)}

Texts ==
    SingleTexts \cup OddTexts
        \cup UNION {MixTexts(k) : k \in 2..MaxPlots}

-----------------------------------------------------------------------------
(* geminiService.getGeminiTutorResponse and the texts of App                *)

\* "API_ERROR:"
ApiErrorMark ==
    <<"A", "P", "I", "_", "E", "R", "R", "O", "R", ":">>

\* "Quota exceeded"
QuotaExceededMark ==
    <<"Q", "u", "o", "t", "a", " ", "e", "x", "c", "e", "e", "d", "e", "d">>

\* "429"
Mark429 ==
    <<"4", "2", "9">>

\* "quota"
MarkQuota ==
    <<"q", "u", "o", "t", "a">>

\* "Requested entity was not found"
MarkNotFound ==
    <<"R", "e", "q", "u", "e", "s", "t", "e", "d", " ", "e", "n", "t", "i",
      "t", "y", " ", "w", "a", "s", " ", "n", "o", "t", " ", "f", "o", "u",
      "n", "d">>

\* "API key"
MarkApiKey ==
    <<"A", "P", "I", " ", "k", "e", "y">>

\* "EMPTY_RESPONSE"
EmptyResponseMessage ==
    <<"E", "M", "P", "T", "Y", "_", "R", "E", "S", "P", "O", "N", "S", "E">>

\* "API_ERROR: The logic gate is momentarily busy. Please wait 30 seconds and try again."
BusyText ==
    <<"A", "P", "I", "_", "E", "R", "R", "O", "R", ":", " ", "T", "h", "e",
      " ", "l", "o", "g", "i", "c", " ", "g", "a", "t", "e", " ", "i", "s",
      " ", "m", "o", "m", "e", "n", "t", "a", "r", "i", "l", "y", " ", "b",
      "u", "s", "y", ".", " ", "P", "l", "e", "a", "s", "e", " ", "w", "a",
      "i", "t", " ", "3", "0", " ", "s", "e", "c", "o", "n", "d", "s", " ",
      "a", "n", "d", " ", "t", "r", "y", " ", "a", "g", "a", "i", "n", ".">>

\* "API_ERROR: Logic source synchronization lost. Please re-select your logic source via the key icon at the top."
SyncLostText ==
    <<"A", "P", "I", "_", "E", "R", "R", "O", "R", ":", " ", "L", "o", "g",
      "i", "c", " ", "s", "o", "u", "r", "c", "e", " ", "s", "y", "n", "c",
      "h", "r", "o", "n", "i", "z", "a", "t", "i", "o", "n", " ", "l", "o",
      "s", "t", ".", " ", "P", "l", "e", "a", "s", "e", " ", "r", "e", "-",
      "s", "e", "l", "e", "c", "t", " ", "y", "o", "u", "r", " ", "l", "o",
      "g", "i", "c", " ", "s", "o", "u", "r", "c", "e", " ", "v", "i", "a",
      " ", "t", "h", "e", " ", "k", "e", "y", " ", "i", "c", "o", "n", " ",
      "a", "t", " ", "t", "h", "e", " ", "t", "o", "p", ".">>

\* "API_ERROR: Socratica is momentarily disconnected. Please check your logic source connection."
DisconnectedText ==
    <<"A", "P", "I", "_", "E", "R", "R", "O", "R", ":", " ", "S", "o", "c",
      "r", "a", "t", "i", "c", "a", " ", "i", "s", " ", "m", "o", "m", "e",
      "n", "t", "a", "r", "i", "l", "y", " ", "d", "i", "s", "c", "o", "n",
      "n", "e", "c", "t", "e", "d", ".", " ", "P", "l", "e", "a", "s", "e",
      " ", "c", "h", "e", "c", "k", " ", "y", "o", "u", "r", " ", "l", "o",
      "g", "i", "c", " ", "s", "o", "u", "r", "c", "e", " ", "c", "o", "n",
      "n", "e", "c", "t", "i", "o", "n", ".">>

\* "Quota exceeded for quota metric"
MessageQuota ==
    <<"Q", "u", "o", "t", "a", " ", "e", "x", "c", "e", "e", "d", "e", "d",
      " ", "f", "o", "r", " ", "q", "u", "o", "t", "a", " ", "m", "e", "t",
      "r", "i", "c">>

\* "API key not valid"
MessageKeyInvalid ==
    <<"A", "P", "I", " ", "k", "e", "y", " ", "n", "o", "t", " ", "v", "a",
      "l", "i", "d">>

\* "Requested entity was not found."
MessageNotFound ==
    <<"R", "e", "q", "u", "e", "s", "t", "e", "d", " ", "e", "n", "t", "i",
      "t", "y", " ", "w", "a", "s", " ", "n", "o", "t", " ", "f", "o", "u",
      "n", "d", ".">>

\* "Internal error"
MessageInternal ==
    <<"I", "n", "t", "e", "r", "n", "a", "l", " ", "e", "r", "r", "o", "r">>

\* "What do you notice about $x$?"
ReplyText ==
    <<"W", "h", "a", "t", " ", "d", "o", " ", "y", "o", "u", " ", "n", "o",
      "t", "i", "c", "e", " ", "a", "b", "o", "u", "t", " ", "$", "x", "$",
      "?">>

\* "hi"
TypedText ==
    <<"h", "i">>

\* "I'm feeling lost."
QuickReactionText ==
    <<"I", "'", "m", " ", "f", "e", "e", "l", "i", "n", "g", " ", "l", "o",
      "s", "t", ".">>

\* "Why is $(a+b)^2$ not just $a^2 + b^2$?"
ExampleText ==
    <<"W", "h", "y", " ", "i", "s", " ", "$", "(", "a", "+", "b", ")", "^",
      "2", "$", " ", "n", "o", "t", " ", "j", "u", "s", "t", " ", "$", "a",
      "^", "2", " ", "+", " ", "b", "^", "2", "$", "?">>

\* "Can you help me understand the intuition behind $x$?"
VariableText ==
    <<"C", "a", "n", " ", "y", "o", "u", " ", "h", "e", "l", "p", " ", "m",
      "e", " ", "u", "n", "d", "e", "r", "s", "t", "a", "n", "d", " ", "t",
      "h", "e", " ", "i", "n", "t", "u", "i", "t", "i", "o", "n", " ", "b",
      "e", "h", "i", "n", "d", " ", "$", "x", "$", "?">>

\* "Welcome"
WelcomeText ==
    <<"W", "e", "l", "c", "o", "m", "e">>

\* s.includes(lit)
Includes(s, lit) == \E p \in 1..Len(s) : StartsAt(s, p, lit)

\* how ai.models.generateContent settles: fulfilled with a response whose
\* text is responseText, or rejected with an error of a status and a message
Fulfilled(responseText) ==
    [rejected |-> FALSE, text |-> responseText, status |-> 0, message |-> <<>>]
Rejected(status, message) ==
    [rejected |-> TRUE, text |-> <<>>, status |-> status, message |-> message]

NoOutcome == Fulfilled(<<>>)

\* the catch block: the text returned for an error of this status and message
ErrorText(status, msg) ==
    IF status = 429 \/ Includes(msg, Mark429) \/ Includes(msg, MarkQuota)
    THEN BusyText
    ELSE IF Includes(msg, MarkNotFound) \/ Includes(msg, MarkApiKey)
    THEN SyncLostText
    ELSE DisconnectedText

\* the value the promise of getGeminiTutorResponse resolves to, given how the
\* model call settled: the text of the response; for an empty text the
\* function throws EMPTY_RESPONSE into its own catch block
GetGeminiTutorResponse(outcome) ==
    IF outcome.rejected THEN ErrorText(outcome.status, outcome.message)
    ELSE IF outcome.text = <<>> THEN ErrorText(0, EmptyResponseMessage)
    ELSE outcome.text

\* the two texts handleSend passes to setKeyError
QuotaExceededError ==
    "Quota Exceeded: Your API key's limit has been reached. Please connect a key from a paid GCP project."
ConnectionError == "Connection Error: Please verify your API settings."

\* the argument of setKeyError for a response text
KeyErrorFor(responseText) ==
    IF Includes(responseText, ApiErrorMark)
    THEN IF Includes(responseText, QuotaExceededMark)
         THEN Str(QuotaExceededError)
         ELSE Str(ConnectionError)
    ELSE Null

\* a chat message: its sender, the text of its text part, and whether an
\* inlineData part precedes it
Message(sender, txt, image) == [sender |-> sender, text |-> txt, image |-> image]

SenderUser == "user"
SenderAi == "ai"

\* the state App starts in
InitialState ==
    [messages |-> <<Message(SenderAi, WelcomeText, FALSE)>>,
     isLoading |-> FALSE,
     isDeepDive |-> FALSE]

-----------------------------------------------------------------------------
(* geminiService.getGeminiTutorResponse: the request and the promise        *)

\* "(System Note: User is in DEEP DIVE mode. Focus only on conceptual intuition.)"
DeepDiveNoteText ==
    <<"(", "S", "y", "s", "t", "e", "m", " ", "N", "o", "t", "e", ":", " ",
      "U", "s", "e", "r", " ", "i", "s", " ", "i", "n", " ", "D", "E", "E",
      "P", " ", "D", "I", "V", "E", " ", "m", "o", "d", "e", ".", " ", "F",
      "o", "c", "u", "s", " ", "o", "n", "l", "y", " ", "o", "n", " ", "c",
      "o", "n", "c", "e", "p", "t", "u", "a", "l", " ", "i", "n", "t", "u",
      "i", "t", "i", "o", "n", ".", ")">>

\* history.slice(0, 10)
OptimizedHistory_FirstTen(history) ==
    SubSeq(history, 1, IF Len(history) > 10 THEN 10 ELSE Len(history))

\* history.slice(-10)
OptimizedHistory(history) ==
    SubSeq(history, IF Len(history) > 10 THEN Len(history) - 9 ELSE 1,
           Len(history))

\* the callback of optimizedHistory.map: the role of the sender and the parts
Content(msg) ==
    [role |-> IF msg.sender = SenderUser THEN "user" ELSE "model",
     text |-> msg.text, image |-> msg.image]

\* the element pushed in deep-dive mode
DeepDiveNote == [role |-> "user", text |-> DeepDiveNoteText, image |-> FALSE]

\* contents as passed to ai.models.generateContent
Contents(history, isDeepDive) ==
    IF isDeepDive
    THEN Append([k \in 1..Len(OptimizedHistory(history)) |->
                    Content(OptimizedHistory(history)[k])], DeepDiveNote)
    ELSE [k \in 1..Len(OptimizedHistory(history)) |->
             Content(OptimizedHistory(history)[k])]

\* how the try block ends once the model call has settled: with the text it
\* returns, or with the error that enters the catch block
TryReturns(responseText) ==
    [threw |-> FALSE, text |-> responseText, status |-> 0, message |-> <<>>]
TryThrows(status, message) ==
    [threw |-> TRUE, text |-> <<>>, status |-> status, message |-> message]

TryBlock(outcome) ==
    IF outcome.rejected THEN TryThrows(outcome.status, outcome.message)
    ELSE IF outcome.text = <<>> THEN TryThrows(0, EmptyResponseMessage)
    ELSE TryReturns(outcome.text)

\* a promise that resolved to a value / that rejected
Resolves(value) == [rejected |-> FALSE, value |-> value]
Rejects == [rejected |-> TRUE, value |-> <<>>]

\* the promise without the catch block: an error leaves the function
TutorPromise_NoCatch(outcome) ==
    IF TryBlock(outcome).threw THEN Rejects
    ELSE Resolves(TryBlock(outcome).text)

\* the promise getGeminiTutorResponse returns, once the model call settled:
\* both the try block and the catch block end in a return
TutorPromise(outcome) ==
    IF TryBlock(outcome).threw
    THEN Resolves(ErrorText(TryBlock(outcome).status, TryBlock(outcome).message))
    ELSE Resolves(TryBlock(outcome).text)

-----------------------------------------------------------------------------
(* The component's life: mounted with a text, re-rendered on a prop change  *)

NotRendered == [threw |-> FALSE, segs |-> <<>>, calls |-> 0]

\* no MathGraph mounted on its own
NoProps == [expression |-> <<>>, range |-> Omitted, color |-> Omitted]
Unmounted == [NoView EXCEPT !.kind = "unmounted"]

bubbleVars == <<text, isDeepDiveContext, pc, out>>
graphVars == <<props, graph>>
appVars == <<state, inputText, imagePreview, showExamples, keyError, requests>>

\* no message bubble is followed
NoBubble ==
    /\ text = <<>>
    /\ isDeepDiveContext = FALSE
    /\ pc = "unmounted"
    /\ out = NotRendered

\* no MathGraph of its own is followed
NoGraph ==
    /\ props = NoProps
    /\ graph = Unmounted

\* App as it is constructed
AppStart ==
    /\ state = InitialState
    /\ inputText = <<>>
    /\ imagePreview = FALSE
    /\ showExamples = TRUE
    /\ keyError = Null
    /\ requests = <<>>

Init ==
    /\ text \in Texts
    /\ isDeepDiveContext = FALSE
    /\ pc = "unmounted"
    /\ out = NotRendered
    /\ rng = 0
    /\ NoGraph
    /\ AppStart

\* the first render of the bubble
Mount ==
    /\ pc = "unmounted"
    /\ pc' = "rendered"
    /\ out' = RenderContent(text, isDeepDiveContext, rng)
    /\ rng' = (rng + out'.calls) % RandomPeriod
    /\ UNCHANGED <<text, isDeepDiveContext, graphVars, appVars>>

\* App enters deep-dive mode: the prop changes and the bubble renders again
EnterDeepDive ==
    /\ pc = "rendered"
    /\ ~isDeepDiveContext
    /\ isDeepDiveContext' = TRUE
    /\ out' = RenderContent(text, TRUE, rng)
    /\ rng' = (rng + out'.calls) % RandomPeriod
    /\ UNCHANGED <<text, pc, graphVars, appVars>>

Next == Mount \/ EnterDeepDive

Spec == Init /\ [][Next]_vars

-----------------------------------------------------------------------------
(* One MathGraph element under a parent that renders it, as renderContent    *)
(* does or with props left out                                              *)

GraphExpressions ==
    {ExprX, ExprSquare, ExprInverse, ExprTwo, ExprTwenty, ExprSymbol, ExprBad,
     ExprRandom}

\* the range prop: left out, or an array the parent builds at every render
GraphRanges ==
    {Omitted} \cup {Given(<<Whole(a), Whole(b)>>) :
                        a \in -MaxAbsBound..0, b \in 0..MaxAbsBound}

Colors == {ColorNormal, ColorDeepDive}

GraphColors == {Omitted} \cup {Given(c) : c \in Colors}

InitGraph ==
    /\ NoBubble
    /\ rng = 0
    /\ props \in [expression : GraphExpressions, range : GraphRanges,
                   color : GraphColors]
    /\ graph = Unmounted
    /\ AppStart

\* one invocation of the component.  The range array is a new one at every
\* render (the literal of renderContent, the default of an omitted prop), so
\* the useMemo dependencies differ and the callback runs at every render.
Invoke(p) ==
    /\ graph' = MathGraphElement(p, rng)
    /\ rng' = (rng + graph'.calls) % RandomPeriod
    /\ props' = p
    /\ UNCHANGED <<bubbleVars, appVars>>

\* the first render
MountGraph ==
    /\ graph.kind = "unmounted"
    /\ Invoke(props)

\* the parent renders again with the same props
RenderAgain ==
    /\ graph.kind # "unmounted"
    /\ Invoke(props)

\* the parent renders again with another accent colour
Recolor ==
    /\ graph.kind # "unmounted"
    /\ \E c \in Colors :
          /\ props.color # Given(c)
          /\ Invoke([props EXCEPT !.color = Given(c)])

NextGraph == MountGraph \/ RenderAgain \/ Recolor

SpecGraph == InitGraph /\ [][NextGraph]_vars

-----------------------------------------------------------------------------
(* App: the events that call handleSend, and the responses                  *)

\* handleSend is accepted at most MaxSends times, at most MaxImages messages
\* carry an image, and at most MaxFailures model calls fail
MaxSends == 3
MaxImages == 1
MaxFailures == 1

\* what the user types into the textarea
InputTexts == {<<>>, <<" ">>, TypedText}

\* the ways the model call settles
Outcomes ==
    {Fulfilled(ReplyText), Fulfilled(<<>>),
     Rejected(429, MessageQuota), Rejected(400, MessageKeyInvalid),
     Rejected(404, MessageNotFound), Rejected(500, MessageInternal)}

\* const userMessage = {sender: Sender.USER, parts: [...image, {text}]}
UserMessage(textToSend) == Message(SenderUser, textToSend, imagePreview)

\* a call getGeminiTutorResponse(history, isDeepDive) that awaits the model:
\* its arguments, the contents it sends, and the handleSend it belongs to
Request(history, forceDeepDive, isDeepDive) ==
    [pc |-> "awaiting",
     history |-> history,
     forceDeepDive |-> forceDeepDive,
     isDeepDive |-> isDeepDive,
     contents |-> Contents(history, isDeepDive),
     outcome |-> NoOutcome,
     responseText |-> <<>>]

\* the promise of getGeminiTutorResponse for each way the model call settles
Promises == [o \in Outcomes |-> TutorPromise(o)]

\* the request once the model call settled as o
Settled(req, o) ==
    [req EXCEPT !.pc = IF Promises[o].rejected THEN "rejected" ELSE "done",
                !.outcome = o,
                !.responseText = Promises[o].value]

\* the values of App's state and of its requests
Current ==
    [state |-> state, inputText |-> inputText, imagePreview |-> imagePreview,
     showExamples |-> showExamples, keyError |-> keyError,
     requests |-> requests]

\* handleSend passing forceDeepDive alone as the deep-dive flag
Accepted_ForcedOnly(textToSend, typed, forceDeepDive) ==
    [state |-> [state EXCEPT
                   !.messages = Append(@, UserMessage(textToSend)),
                   !.isLoading = TRUE,
                   !.isDeepDive = forceDeepDive \/ @],
     inputText |-> IF typed THEN <<>> ELSE inputText,
     imagePreview |-> FALSE,
     showExamples |-> FALSE,
     keyError |-> keyError,
     requests |-> Append(requests,
                      Request(Append(state.messages, UserMessage(textToSend)),
                              forceDeepDive, forceDeepDive))]

\* handleSend after its guard, up to the await: the user message is appended,
\* the input cleared, and the request leaves with the history of the render
\* the handler belongs to and the deep-dive flag of that render
Accepted(textToSend, typed, forceDeepDive) ==
    [state |-> [state EXCEPT
                   !.messages = Append(@, UserMessage(textToSend)),
                   !.isLoading = TRUE,
                   !.isDeepDive = forceDeepDive \/ @],
     inputText |-> IF typed THEN <<>> ELSE inputText,
     imagePreview |-> FALSE,
     showExamples |-> FALSE,
     keyError |-> keyError,
     requests |-> Append(requests,
                      Request(Append(state.messages, UserMessage(textToSend)),
                              forceDeepDive,
                              forceDeepDive \/ state.isDeepDive))]

\* the guard of handleSend without the test of the image
AfterHandleSend_TextOnly(customText, forceDeepDive) ==
    IF Trim(IF customText.given THEN customText.v ELSE inputText) = <<>>
    THEN Current
    ELSE Accepted(IF customText.given THEN customText.v ELSE inputText,
                  TRUE, forceDeepDive)

\* the values handleSend(customText, forceDeepDive) leaves when it reaches
\* its await or returns; a text that is blank with no image attached returns
\* at once
AfterHandleSend(customText, forceDeepDive) ==
    IF Trim(IF customText.given THEN customText.v ELSE inputText) = <<>>
          /\ ~imagePreview
    THEN Current
    ELSE Accepted(IF customText.given THEN customText.v ELSE inputText,
                  ~customText.given, forceDeepDive)

\* handleSend(customText, forceDeepDive) up to the await
HandleSend(customText, forceDeepDive) ==
    /\ Len(AfterHandleSend(customText, forceDeepDive).requests) <= MaxSends
    /\ state' = AfterHandleSend(customText, forceDeepDive).state
    /\ inputText' = AfterHandleSend(customText, forceDeepDive).inputText
    /\ imagePreview' = AfterHandleSend(customText, forceDeepDive).imagePreview
    /\ showExamples' = AfterHandleSend(customText, forceDeepDive).showExamples
    /\ keyError' = AfterHandleSend(customText, forceDeepDive).keyError
    /\ requests' = AfterHandleSend(customText, forceDeepDive).requests
    /\ UNCHANGED <<bubbleVars, graphVars, rng>>

\* onChange of the textarea, which is disabled while loading
TypeText ==
    /\ ~state.isLoading
    /\ \E t \in InputTexts : inputText' = t
    /\ UNCHANGED <<state, imagePreview, showExamples, keyError, requests>>
    /\ UNCHANGED <<bubbleVars, graphVars, rng>>

\* the messages sent with an image
ImagesSent ==
    Cardinality({k \in 1..Len(state.messages) : state.messages[k].image})

\* an image is uploaded or captured
AttachImage ==
    /\ ~imagePreview
    /\ ImagesSent < MaxImages
    /\ imagePreview' = TRUE
    /\ UNCHANGED <<state, inputText, showExamples, keyError, requests>>
    /\ UNCHANGED <<bubbleVars, graphVars, rng>>

\* the button on the preview
ClearImage ==
    /\ imagePreview
    /\ imagePreview' = FALSE
    /\ UNCHANGED <<state, inputText, showExamples, keyError, requests>>
    /\ UNCHANGED <<bubbleVars, graphVars, rng>>

\* the send button, disabled while loading and while there is nothing to send
ClickSend ==
    /\ ~state.isLoading
    /\ ~(Trim(inputText) = <<>> /\ ~imagePreview)
    /\ HandleSend(Omitted, FALSE)

\* Enter in the textarea
PressEnter ==
    /\ ~state.isLoading
    /\ HandleSend(Omitted, FALSE)

\* a quick reaction, shown while not loading and without a key error
QuickReaction ==
    /\ ~state.isLoading
    /\ keyError = Null
    /\ HandleSend(Given(QuickReactionText), FALSE)

\* an example card, shown until the first send
Example ==
    /\ showExamples
    /\ HandleSend(Given(ExampleText), FALSE)

\* a click on a math variable of a message bubble
VariableClick ==
    /\ \E k \in 1..Len(state.messages) : state.messages[k].text = ReplyText
    /\ HandleSend(Given(VariableText), TRUE)

\* the model calls that have failed
Failures ==
    Cardinality({i \in 1..Len(requests) :
                    requests[i].pc # "awaiting"
                        /\ TryBlock(requests[i].outcome).threw})

\* handleSend running on with a reply that replaces the last message
Resumed_Replaces(i, o, responseText) ==
    /\ requests' = [requests EXCEPT ![i] = Settled(@, o)]
    /\ keyError' = KeyErrorFor(responseText)
    /\ state' = [state EXCEPT
                    !.messages = [@ EXCEPT ![Len(@)] =
                                     Message(SenderAi, responseText, FALSE)],
                    !.isLoading = FALSE]
    /\ UNCHANGED <<inputText, imagePreview, showExamples>>
    /\ UNCHANGED <<bubbleVars, graphVars, rng>>

\* handleSend running on without its last setState
Resumed_KeepsLoading(i, o, responseText) ==
    /\ requests' = [requests EXCEPT ![i] = Settled(@, o)]
    /\ keyError' = KeyErrorFor(responseText)
    /\ UNCHANGED <<state, inputText, imagePreview, showExamples>>
    /\ UNCHANGED <<bubbleVars, graphVars, rng>>

\* the await of request i resolves to responseText and handleSend runs on
Resumed(i, o, responseText) ==
    /\ requests' = [requests EXCEPT ![i] = Settled(@, o)]
    /\ keyError' = KeyErrorFor(responseText)
    /\ state' = [state EXCEPT
                    !.messages = Append(@, Message(SenderAi, responseText, FALSE)),
                    !.isLoading = FALSE]
    /\ UNCHANGED <<inputText, imagePreview, showExamples>>
    /\ UNCHANGED <<bubbleVars, graphVars, rng>>

\* the await of request i throws: handleSend ends there
Abandoned(i, o) ==
    /\ requests' = [requests EXCEPT ![i] = Settled(@, o)]
    /\ UNCHANGED <<state, inputText, imagePreview, showExamples, keyError>>
    /\ UNCHANGED <<bubbleVars, graphVars, rng>>

\* the model call of request i settles and getGeminiTutorResponse with it
RespondTo(i) ==
    /\ i <= Len(requests)
    /\ requests[i].pc = "awaiting"
    /\ \E o \in Outcomes :
          /\ TryBlock(o).threw => Failures < MaxFailures
          /\ IF Promises[o].rejected
             THEN Abandoned(i, o)
             ELSE Resumed(i, o, Promises[o].value)

Respond == \E i \in 1..MaxSends : RespondTo(i)

\* the Back button of the header
Back ==
    /\ state.isDeepDive
    /\ state' = [state EXCEPT !.isDeepDive = FALSE]
    /\ UNCHANGED <<inputText, imagePreview, showExamples, keyError, requests>>
    /\ UNCHANGED <<bubbleVars, graphVars, rng>>

\* handleOpenKeySelection where the key dialog exists
OpenKeySelection ==
    /\ keyError # Null
    /\ keyError' = Null
    /\ UNCHANGED <<state, inputText, imagePreview, showExamples, requests>>
    /\ UNCHANGED <<bubbleVars, graphVars, rng>>

InitApp ==
    /\ NoBubble
    /\ rng = 0
    /\ NoGraph
    /\ AppStart

NextApp ==
    \/ TypeText \/ AttachImage \/ ClearImage
    \/ ClickSend \/ PressEnter \/ QuickReaction \/ Example \/ VariableClick
    \/ Respond \/ Back \/ OpenKeySelection

SpecApp == InitApp /\ [][NextApp]_vars

\* every model call settles
FairApp == \A i \in 1..MaxSends : WF_vars(RespondTo(i))

SpecAppFair == SpecApp /\ FairApp

-----------------------------------------------------------------------------
(* getGeminiTutorResponse called on its own, with histories of any length   *)

\* the longest history
MaxHistory == 12

\* a history of n messages, each with a text of its own
HistoryOf(n) ==
    [k \in 1..n |->
        Message(IF k % 2 = 1 THEN SenderAi ELSE SenderUser,
                <<DigitChar(k \div 10), DigitChar(k % 10)>>, k % 4 = 2)]

Histories == {HistoryOf(n) : n \in 0..MaxHistory}

\* getGeminiTutorResponse(history, isDeepDive) up to the await
Call ==
    /\ requests = <<>>
    /\ \E h \in Histories, d \in BOOLEAN :
          requests' = <<Request(h, FALSE, d)>>
    /\ UNCHANGED <<state, inputText, imagePreview, showExamples, keyError>>
    /\ UNCHANGED <<bubbleVars, graphVars, rng>>

\* the model call settles and the function ends
Settle ==
    /\ Len(requests) = 1
    /\ requests[1].pc = "awaiting"
    /\ \E o \in Outcomes : requests' = <<Settled(requests[1], o)>>
    /\ UNCHANGED <<state, inputText, imagePreview, showExamples, keyError>>
    /\ UNCHANGED <<bubbleVars, graphVars, rng>>

InitService == InitApp

NextService == Call \/ Settle

SpecService == InitService /\ [][NextService]_vars

-----------------------------------------------------------------------------
(* Properties                                                               *)

Rendered == pc = "rendered"

\* the segments of the current rendering that are MathGraph components
PlotSegs == {i \in 1..Len(out.segs) : out.segs[i].type = "plot"}
Charts == {i \in PlotSegs : out.segs[i].view.kind = "chart"}

\* the expression of segment i compiles
Compiles(i) == MathParse(Clean(out.segs[i].expression)).ok
CodeOf(i) == MathParse(Clean(out.segs[i].expression)).node
MinOf(i) == out.segs[i].range[1]
MaxOf(i) == out.segs[i].range[2]

InsideCanvas(c) ==
    /\ Le(Whole(padding), c.x) /\ Le(c.x, Whole(width - padding))
    /\ Le(Whole(padding), c.y) /\ Le(c.y, Whole(height - padding))

\* C1: every point of the polyline of every rendered chart lies in the padded
\* interior of the canvas, 30 <= px <= 370 and 30 <= py <= 220.
C1_PolylineInsideCanvas ==
    Rendered =>
        \A i \in Charts :
            \A k \in 1..Len(out.segs[i].view.path) :
                InsideCanvas(out.segs[i].view.path[k])

\* C2: a directive whose bounds do not satisfy min < max (equal, reversed, or
\* not a number) renders nothing or the error panel, never a chart, and no
\* exception leaves the rendering.
C2_DegenerateRangeFailsSoft ==
    Rendered =>
        /\ ~out.threw
        /\ \A i \in PlotSegs :
              ~Lt(MinOf(i), MaxOf(i)) =>
                  out.segs[i].view.kind \in {"nothing", "error"}

\* C3: a second or third field that is present but is no number makes
\* renderContent pass the default bound for it, -5 or 5.
C3_UnparsableBoundDefaults ==
    Rendered =>
        \A i \in PlotSegs :
            LET g == out.segs[i].groups
            IN  /\ (g.n >= 2 /\ IsNaNv(ParseFloat(g.g2))) => MinOf(i) = DefaultMin
                /\ (g.n >= 3 /\ IsNaNv(ParseFloat(g.g3))) => MaxOf(i) = DefaultMax

\* C4: when parsing or compiling the cleaned expression throws, the data has
\* no points and carries the thrown message, the output is the error panel
\* with that message, and no exception leaves the component.
C4_CompileErrorIsPanel ==
    Rendered =>
        /\ ~out.threw
        /\ \A i \in PlotSegs :
              ~Compiles(i) =>
                  LET v == out.segs[i].view
                      m == MathParse(Clean(out.segs[i].expression)).msg
                  IN  /\ v.points = <<>>
                      /\ v.error = Str(m)
                      /\ v.kind = "error"
                      /\ v.message = m
                      /\ m # ""

C4_Witness ==
    /\ Rendered
    /\ \E i \in PlotSegs :
          /\ ~Compiles(i)
          /\ out.segs[i].view.kind = "error"
          /\ out.segs[i].view.message = "Value expected (char 4)"

\* the x of sample i of segment seg, and the value there
XAt(seg, i) ==
    Add(MinOf(seg), Div(Mul(Whole(i), Sub(MaxOf(seg), MinOf(seg))), Whole(steps)))
ValueAt(seg, i) == Evaluate(CodeOf(seg), XAt(seg, i))

\* the indices of the samples of segment seg whose value is a finite real, in
\* ascending order
FiniteIndices(seg) ==
    SelectSeq([k \in 1..(steps + 1) |-> k - 1], LAMBDA i : IsNum(ValueAt(seg, i)))

\* C5: for an expression that compiles, the point sequence is exactly the
\* samples whose value is a finite real number, in ascending sample order;
\* a sample that throws or gives a non-number, NaN or an infinity is left out
\* and the samples after it are still evaluated.
C5_PointsAreFiniteSamples ==
    Rendered =>
        \A i \in PlotSegs :
            Compiles(i) =>
                LET idx == FiniteIndices(i)
                    pts == out.segs[i].view.points
                IN  /\ Len(pts) = Len(idx)
                    /\ \A k \in 1..Len(idx) :
                          pts[k] = [x |-> XAt(i, idx[k]), y |-> ValueAt(i, idx[k])]

\* a pole inside the domain: samples are dropped and finite samples on both
\* sides of the first dropped one are kept
C5_Witness ==
    /\ Rendered
    /\ \E i \in PlotSegs :
          /\ Compiles(i)
          /\ Lt(MinOf(i), Whole(0)) /\ Lt(Whole(0), MaxOf(i))
          /\ ValueAt(i, 75) = PInf
          /\ Len(out.segs[i].view.points) = steps
          /\ Lt(out.segs[i].view.points[75].x, Whole(0))
          /\ Lt(Whole(0), out.segs[i].view.points[76].x)

\* C6: every MathGraph ends in exactly one of: the error panel (the
\* expression did not compile), nothing (it compiled, fewer than 2 points
\* survived), the chart (it compiled, at least 2 points survived).
C6_ThreeOutcomes ==
    Rendered =>
        /\ ~out.threw
        /\ \A i \in PlotSegs :
              LET v == out.segs[i].view
              IN  /\ v.kind \in {"error", "nothing", "chart"}
                  /\ v.kind = "error" <=> ~Compiles(i)
                  /\ v.kind = "nothing" <=> (Compiles(i) /\ Len(v.points) < 2)
                  /\ v.kind = "chart" <=> (Compiles(i) /\ Len(v.points) >= 2)

\* exactly one point survived and nothing is rendered
C6_Witness ==
    /\ Rendered
    /\ \E i \in PlotSegs :
          /\ Len(out.segs[i].view.points) = 1
          /\ out.segs[i].view.kind = "nothing"

\* segment i is a directive that fails: text opening with [PLOT: that is not
\* rendered as a chart
Failing(i) ==
    /\ StartsAt(out.segs[i].part, 1, PlotOpen)
    /\ out.segs[i].type = "markdown" \/ out.segs[i].view.kind # "chart"

ValidDirective == Directive(ExprX, <<>>)

\* the current text with every failing directive replaced by a valid one
RECURSIVE RepairedFrom(_)
RepairedFrom(i) ==
    IF i > Len(out.segs) THEN <<>>
    ELSE (IF Failing(i) THEN ValidDirective ELSE out.segs[i].part)
             \o RepairedFrom(i + 1)

YSet(i) == {out.segs[i].view.points[k].y : k \in 1..Len(out.segs[i].view.points)}

\* C8: minY = max(min(ys, -1), -15) and maxY = min(max(ys, 1), 15), so the
\* window never leaves [-15, 15] however large the sampled values are.
C8_ViewBoundsClamped ==
    Rendered =>
        \A i \in Charts :
            LET v == out.segs[i].view
                lows == YSet(i) \cup {Whole(-1)}
                highs == YSet(i) \cup {Whole(1)}
            IN  /\ Le(Whole(-15), v.minY) /\ Le(v.maxY, Whole(15))
                /\ IF \E y \in lows : Le(y, Whole(-15))
                   THEN v.minY = Whole(-15)
                   ELSE v.minY \in lows /\ \A y \in lows : Le(v.minY, y)
                /\ IF \E y \in highs : Le(Whole(15), y)
                   THEN v.maxY = Whole(15)
                   ELSE v.maxY \in highs /\ \A y \in highs : Le(y, v.maxY)

\* sampled values beyond both clamps
C8_Witness ==
    /\ Rendered
    /\ \E i \in Charts :
          /\ \E y \in YSet(i) : Lt(Whole(15), y)
          /\ \E y \in YSet(i) : Lt(y, Whole(-15))
          /\ out.segs[i].view.minY = Whole(-15)
          /\ out.segs[i].view.maxY = Whole(15)

\* C9: in every chart minY <= -1 and maxY >= 1, so the window holds zero,
\* spans at least 2, and mapY never divides by zero: every mapped y is a
\* number.
C9_WindowHoldsZero ==
    Rendered =>
        \A i \in Charts :
            LET v == out.segs[i].view
            IN  /\ Le(v.minY, Whole(-1))
                /\ Le(Whole(1), v.maxY)
                /\ Le(Whole(2), Sub(v.maxY, v.minY))
                /\ \A k \in 1..Len(v.path) : IsNum(v.path[k].y)

\* a constant function whose values all lie below -15
C9_Witness ==
    /\ Rendered
    /\ \E i \in Charts :
          /\ \A y \in YSet(i) : Lt(y, Whole(-15))
          /\ out.segs[i].view.maxY = Whole(1)

\* C10: a compiled expression is evaluated at steps + 1 = 151 x-values,
\* whatever the expression and the domain, at x_i = min + i*(max - min)/150:
\* the first is min, the last is max, and they are equally spaced.
C10_SampleGrid ==
    Rendered =>
        \A i \in PlotSegs :
            Compiles(i) =>
                LET xs == out.segs[i].view.xs
                IN  /\ Len(xs) = 151
                    /\ \A k \in 1..Len(xs) : xs[k] = XAt(i, k - 1)
                    /\ xs[1] = MinOf(i)
                    /\ xs[Len(xs)] = MaxOf(i)
                    /\ \A k \in 2..Len(xs) :
                          Sub(xs[k], xs[k - 1]) = Sub(xs[2], xs[1])

\* the window of C1 does hold for the ranges with min < max
PolylineInsideCanvasProperRange ==
    Rendered =>
        \A i \in Charts :
            Lt(MinOf(i), MaxOf(i)) =>
                \A k \in 1..Len(out.segs[i].view.path) :
                    InsideCanvas(out.segs[i].view.path[k])

\* the grid of C10 does hold when both bounds are numbers
SampleGridNumericBounds ==
    Rendered =>
        \A i \in PlotSegs :
            (Compiles(i) /\ IsNum(MinOf(i)) /\ IsNum(MaxOf(i))) =>
                LET xs == out.segs[i].view.xs
                IN  /\ Len(xs) = steps + 1
                    /\ \A k \in 1..Len(xs) : xs[k] = XAt(i, k - 1)
                    /\ xs[1] = MinOf(i)
                    /\ xs[Len(xs)] = MaxOf(i)

\* the position of the random generator when segment i was rendered
GenAt(i) ==
    (rng + (RandomPeriod - 1) * TotalCalls(out.segs, i)) % RandomPeriod

\* C11: a directive with no bounds is rendered over [-5, 5]; each bound
\* defaults on its own, so a directive with only a minimum field is rendered
\* over [that minimum, 5]; and a MathGraph whose range prop is left out
\* renders what it renders for the range [-5, 5].
C11_DefaultRange ==
    Rendered =>
        \A i \in PlotSegs :
            LET g == out.segs[i].groups
                v == out.segs[i].view
            IN  /\ g.n = 1 =>
                      /\ out.segs[i].range = <<Whole(-5), Whole(5)>>
                      /\ MathGraphElement(
                             [expression |-> out.segs[i].expression,
                              range |-> Omitted, color |-> Given(v.color)],
                             GenAt(i)) = v
                /\ g.n = 2 =>
                      out.segs[i].range = <<ParseFloat(g.g2), Whole(5)>>
                /\ (g.n <= 2 /\ Compiles(i) /\ IsNum(MinOf(i))) =>
                      v.xs[steps + 1] = Whole(5)
                /\ (g.n = 1 /\ Compiles(i)) => v.xs[1] = Whole(-5)

\* a directive with a minimum only, charted from that minimum to 5
C11_Witness ==
    /\ Rendered
    /\ \E i \in Charts :
          /\ out.segs[i].groups.n = 2
          /\ out.segs[i].groups.g2 = <<"-", "2">>
          /\ out.segs[i].view.xs[1] = Whole(-2)
          /\ out.segs[i].view.xs[steps + 1] = Whole(5)

C13_OneCommandPerPoint ==
    Rendered =>
        \A i \in Charts :
            LET v == out.segs[i].view
            IN  /\ Len(v.path) = Len(v.points)
                /\ v.path[1].cmd = "M"
                /\ \A k \in 2..Len(v.path) : v.path[k].cmd = "L"
                /\ \A k \in 1..Len(v.path) :
                      /\ v.path[k].x = mapX(v.points[k].x, MinOf(i), MaxOf(i))
                      /\ v.path[k].y = mapY(v.points[k].y, v.minY, v.maxY)

\* a chart of fewer points than samples
C13_Witness ==
    /\ Rendered
    /\ \E i \in Charts :
          LET v == out.segs[i].view
          IN  /\ Len(v.points) = steps
              /\ Len(v.path) = steps
              /\ Cardinality({k \in 1..Len(v.path) : v.path[k].cmd = "M"}) = 1
              /\ Cardinality({k \in 1..Len(v.path) : v.path[k].cmd = "L"}) = steps - 1

\* a sample between points k and k + 1 of chart i was dropped: they lie more
\* than one step apart
Gap(i, k) ==
    LET v == out.segs[i].view
    IN  /\ Lt(MinOf(i), MaxOf(i))
        /\ Sub(v.points[k + 1].x, v.points[k].x) # Sub(v.xs[2], v.xs[1])

\* C14: where a sample between two surviving samples was dropped, the path
\* has no line command joining the two: the later one starts a new stroke.
C14_PoleBreaksLine ==
    Rendered =>
        \A i \in Charts :
            \A k \in 1..(Len(out.segs[i].view.points) - 1) :
                Gap(i, k) => out.segs[i].view.path[k + 1].cmd # "L"

\* C15: in every chart over a range with min < max the four endpoints of the
\* two guide lines lie in the padded interior, whether or not the domain
\* contains 0.
C15_AxesInsideInterior ==
    Rendered =>
        \A i \in Charts :
            Lt(MinOf(i), MaxOf(i)) =>
                LET a == out.segs[i].view.axes
                IN  /\ InsideCanvas([x |-> a.horizontal.x1, y |-> a.horizontal.y1])
                    /\ InsideCanvas([x |-> a.horizontal.x2, y |-> a.horizontal.y2])
                    /\ InsideCanvas([x |-> a.vertical.x1, y |-> a.vertical.y1])
                    /\ InsideCanvas([x |-> a.vertical.x2, y |-> a.vertical.y2])

\* the guide lines of C15 are inside when the domain contains 0
AxesInsideWhenDomainHoldsZero ==
    Rendered =>
        \A i \in Charts :
            (Le(MinOf(i), Whole(0)) /\ Le(Whole(0), MaxOf(i))
                 /\ Lt(MinOf(i), MaxOf(i))) =>
                LET a == out.segs[i].view.axes
                IN  /\ InsideCanvas([x |-> a.horizontal.x1, y |-> a.horizontal.y1])
                    /\ InsideCanvas([x |-> a.horizontal.x2, y |-> a.horizontal.y2])
                    /\ InsideCanvas([x |-> a.vertical.x1, y |-> a.vertical.y1])
                    /\ InsideCanvas([x |-> a.vertical.x2, y |-> a.vertical.y2])

GraphMounted == graph.kind # "unmounted"

\* C16: an invocation of MathGraph with the expression and range of the
\* invocation before it gives the same points and the same error, and leaves
\* the state other invocations see as it found it.
C16_SameInputSameOutput ==
    [][(GraphMounted /\ props'.expression = props.expression
            /\ props'.range = props.range) =>
           /\ graph'.points = graph.points
           /\ graph'.error = graph.error
           /\ rng' = rng]_vars

\* the purity of C16 holds for the expressions that do not call random()
SameInputSameOutputWithoutRandom ==
    [][(GraphMounted /\ props.expression # ExprRandom
            /\ props'.expression = props.expression
            /\ props'.range = props.range) =>
           /\ graph'.points = graph.points
           /\ graph'.error = graph.error
           /\ rng' = rng]_vars

\* the expression with the four notations replaced in one pass from the left
RECURSIVE Normalized(_, _)
Normalized(s, p) ==
    IF p > Len(s) THEN <<>>
    ELSE IF StartsAt(s, p, <<"\\", "c", "d", "o", "t">>)
         THEN <<"*">> \o Normalized(s, p + 5)
    ELSE IF StartsAt(s, p, <<"\\", "t", "i", "m", "e", "s">>)
         THEN <<"*">> \o Normalized(s, p + 6)
    ELSE IF s[p] = "{" THEN <<"(">> \o Normalized(s, p + 1)
    ELSE IF s[p] = "}" THEN <<")">> \o Normalized(s, p + 1)
    ELSE <<s[p]>> \o Normalized(s, p + 1)

\* C17: what is parsed is the expression with every \cdot and \times
\* replaced by *, every { by ( and every } by ), and nothing else changed;
\* the label of the chart is the expression as it was given.
C17_NormalizedBeforeParsing ==
    Rendered =>
        \A i \in PlotSegs :
            LET e == out.segs[i].expression
                v == out.segs[i].view
            IN  /\ Clean(e) = Normalized(e, 1)
                /\ v.kind = "error" <=> ~MathParse(Normalized(e, 1)).ok
                /\ v.kind = "error" => v.message = MathParse(Normalized(e, 1)).msg
                /\ v.label = e

\* an expression written with \times is charted and labelled as written
C17_Witness ==
    /\ Rendered
    /\ \E i \in Charts :
          /\ out.segs[i].expression = ExprDoubleTimes
          /\ Normalized(ExprDoubleTimes, 1) = ExprDouble
          /\ out.segs[i].view.label = ExprDoubleTimes
          /\ out.segs[i].view.points[1].y =
                 Mul(Whole(2), out.segs[i].view.points[1].x)

\* what a view holds apart from the stroke colour
Numeric(v) == [v EXCEPT !.color = ""]

\* the position of the random generator when the graph was rendered
GenBefore == (rng + (RandomPeriod - 1) * graph.calls) % RandomPeriod

\* C18: with the expression, the range and everything else the same, the
\* colour prop changes the stroke colour of the view and nothing else: the
\* outcome, the points, the view bounds and the path are those of any other
\* colour.
C18_ColourIsCosmetic ==
    GraphMounted =>
        /\ graph.color = (IF props.color.given THEN props.color.v ELSE ColorNormal)
        /\ \A c \in GraphColors :
              Numeric(MathGraphElement([props EXCEPT !.color = c], GenBefore))
                  = Numeric(graph)

\* a chart in the deep-dive colour whose path is that of the normal colour
C18_Witness ==
    /\ GraphMounted
    /\ graph.kind = "chart"
    /\ graph.color = ColorDeepDive
    /\ Len(graph.path) = steps + 1
    /\ MathGraphElement([props EXCEPT !.color = Given(ColorNormal)],
                        GenBefore).color = ColorNormal
    /\ MathGraphElement([props EXCEPT !.color = Given(ColorNormal)],
                        GenBefore).path = graph.path

\* the linear maps of C19, written out
LinearX(x, minX, maxX) ==
    Add(Whole(30), Div(Mul(Sub(x, minX), Whole(340)), Sub(maxX, minX)))
LinearY(y, minY, maxY) ==
    Sub(Whole(220), Div(Mul(Sub(y, minY), Whole(190)), Sub(maxY, minY)))

\* C19: in a chart over min < max, mapX is the linear map that takes min to
\* 30 and max to 370 and does not decrease; mapY is the linear map that takes
\* minY to 220 and maxY to 30 and does not increase; a y above maxY is mapped
\* to 30 and a y below minY to 220.
C19_LinearMaps ==
    Rendered =>
        \A i \in Charts :
            Lt(MinOf(i), MaxOf(i)) =>
                LET v == out.segs[i].view
                IN  /\ v.axes.horizontal.x1 = Whole(30)
                    /\ v.axes.horizontal.x2 = Whole(370)
                    /\ v.axes.vertical.y1 = Whole(220)
                    /\ v.axes.vertical.y2 = Whole(30)
                    /\ \A k \in 1..Len(v.points) :
                          LET y == v.points[k].y
                          IN  /\ v.path[k].x = LinearX(v.points[k].x, MinOf(i), MaxOf(i))
                              /\ v.path[k].y =
                                     IF Lt(v.maxY, y) THEN Whole(30)
                                     ELSE IF Lt(y, v.minY) THEN Whole(220)
                                     ELSE LinearY(y, v.minY, v.maxY)
                    /\ \A k \in 1..(Len(v.points) - 1) :
                          /\ Le(v.path[k].x, v.path[k + 1].x)
                          /\ Le(v.points[k].y, v.points[k + 1].y) =>
                                 Le(v.path[k + 1].y, v.path[k].y)
                          /\ Le(v.points[k + 1].y, v.points[k].y) =>
                                 Le(v.path[k].y, v.path[k + 1].y)

\* a chart with values above maxY and values below minY
C19_Witness ==
    /\ Rendered
    /\ \E i \in Charts :
          LET v == out.segs[i].view
          IN  /\ Lt(MinOf(i), MaxOf(i))
              /\ \E k \in 1..Len(v.points) :
                    Lt(v.maxY, v.points[k].y) /\ v.path[k].y = Whole(30)
              /\ \E k \in 1..Len(v.points) :
                    Lt(v.points[k].y, v.minY) /\ v.path[k].y = Whole(220)

\* request i failed with status 429 / failed in another way
QuotaFailure(o) == o.rejected /\ o.status = 429
OtherFailure(o) == (o.rejected /\ o.status # 429) \/ (~o.rejected /\ o.text = <<>>)

\* C20: when the call of a request fails with status 429, handleSend sets
\* keyError to the 'Quota Exceeded: ...' text; when it fails in any other way,
\* to the 'Connection Error: ...' text.
C20_FailureClassified ==
    [][\A i \in 1..Len(requests) :
           (requests[i].pc = "awaiting" /\ requests'[i].pc = "done") =>
               /\ QuotaFailure(requests'[i].outcome) =>
                      keyError' = Str(QuotaExceededError)
               /\ OtherFailure(requests'[i].outcome) =>
                      keyError' = Str(ConnectionError)]_vars

\* every failure, of status 429 or not, ends in the 'Connection Error' text
EveryFailureIsConnectionError ==
    [][\A i \in 1..Len(requests) :
           (requests[i].pc = "awaiting" /\ requests'[i].pc = "done") =>
               IF requests'[i].outcome.rejected
                  \/ requests'[i].outcome.text = <<>>
               THEN keyError' = Str(ConnectionError)
               ELSE keyError' = Null]_vars

\* the number of messages of the history of request i that are sent
Kept(i) ==
    IF Len(requests[i].history) < 10 THEN Len(requests[i].history) ELSE 10

\* C21: for a history of any length, the contents of a request are the last
\* min(10, length) messages of the history in their order, followed by the
\* user-role system note exactly when isDeepDive is true; no older message
\* is among them.
C21_LastTenThenNote ==
    \A i \in 1..Len(requests) :
        LET h == requests[i].history
            c == requests[i].contents
        IN  /\ Len(c) = Kept(i) + (IF requests[i].isDeepDive THEN 1 ELSE 0)
            /\ \A k \in 1..Kept(i) :
                  /\ c[k].text = h[Len(h) - Kept(i) + k].text
                  /\ c[k].image = h[Len(h) - Kept(i) + k].image
                  /\ c[k].role =
                        IF h[Len(h) - Kept(i) + k].sender = SenderUser
                        THEN "user" ELSE "model"
            /\ requests[i].isDeepDive =>
                  /\ c[Len(c)].role = "user"
                  /\ c[Len(c)].text = DeepDiveNoteText

\* a deep-dive request whose history is longer than ten messages
C21_Witness ==
    \E i \in 1..Len(requests) :
        /\ Len(requests[i].history) = MaxHistory
        /\ requests[i].isDeepDive
        /\ Len(requests[i].contents) = 11
        /\ requests[i].contents[1].text = requests[i].history[MaxHistory - 9].text

\* the model call of request i failed: it rejected, or its text is empty
Failed(i) ==
    requests[i].outcome.rejected \/ requests[i].outcome.text = <<>>

\* C22: getGeminiTutorResponse never rejects: for every failure of the model
\* call, an empty response text included, it resolves to a string that starts
\* with 'API_ERROR:', and for every success to the non-empty response text.
C22_NeverRejects ==
    \A i \in 1..Len(requests) :
        requests[i].pc # "awaiting" =>
            /\ requests[i].pc = "done"
            /\ IF Failed(i)
               THEN StartsAt(requests[i].responseText, 1, ApiErrorMark)
               ELSE /\ requests[i].responseText = requests[i].outcome.text
                    /\ requests[i].responseText # <<>>

\* a call whose response has an empty text has ended in an API_ERROR text
C22_Witness ==
    \E i \in 1..Len(requests) :
        /\ requests[i].pc = "done"
        /\ requests[i].outcome = Fulfilled(<<>>)
        /\ requests[i].responseText = DisconnectedText

\* the requests whose response has not arrived
Outstanding == {i \in 1..Len(requests) : requests[i].pc = "awaiting"}

\* C23: in every reachable state of App, state.isLoading is true whenever at
\* least one model request started by handleSend is still outstanding,
\* whichever UI path triggered the sends.
C23_LoadingWhileOutstanding ==
    Outstanding # {} => state.isLoading

\* C24: every accepted handleSend eventually completes: given that the model
\* call settles, the request is answered and isLoading, set to true when the
\* send is accepted, becomes false again, whether the call succeeded or not.
C24_SendCompletes ==
    /\ \A i \in 1..MaxSends :
          (i \in Outstanding) ~> (i <= Len(requests) /\ requests[i].pc = "done")
    /\ state.isLoading ~> ~state.isLoading

\* two sends have completed, one of them after a failed call
C24_Witness ==
    /\ Len(requests) >= 2
    /\ Outstanding = {}
    /\ \E i \in 1..Len(requests) : requests[i].pc = "done" /\ Failed(i)
    /\ \E i \in 1..Len(requests) : requests[i].pc = "done" /\ ~Failed(i)
    /\ ~state.isLoading

\* the message list before a step is the beginning of the list after it
Extended(before, after) ==
    /\ Len(before) <= Len(after)
    /\ SubSeq(after, 1, Len(before)) = before

\* the requests answered by a step
Answered == {i \in Outstanding : requests'[i].pc = "done"}

\* C25: the message list is append-only and balanced: no message is ever
\* removed, reordered or modified; each accepted handleSend appends exactly
\* one USER message at once and exactly one AI message when its response
\* arrives, an API_ERROR response included; so after all requests settle the
\* list holds the welcome message plus two messages per accepted send.
C25_AppendOnlyBalanced ==
    /\ [][/\ Extended(state.messages, state'.messages)
          /\ Len(requests') > Len(requests) =>
                /\ Len(requests') = Len(requests) + 1
                /\ Len(state'.messages) = Len(state.messages) + 1
                /\ state'.messages[Len(state'.messages)].sender = SenderUser
          /\ \A i \in Answered :
                state'.messages =
                    Append(state.messages,
                           Message(SenderAi, requests'[i].responseText, FALSE))
          /\ (Len(requests') = Len(requests) /\ Answered = {}) =>
                state'.messages = state.messages]_vars
    /\ [](/\ state.messages[1] = Message(SenderAi, WelcomeText, FALSE)
          /\ Outstanding = {} =>
                Len(state.messages) = 1 + 2 * Len(requests))

\* two sends have settled, one with an API_ERROR text, and five messages are
\* listed
C25_Witness ==
    /\ Len(requests) = 2
    /\ Outstanding = {}
    /\ Len(state.messages) = 5
    /\ \E k \in 1..5 :
          /\ state.messages[k].sender = SenderAi
          /\ StartsAt(state.messages[k].text, 1, ApiErrorMark)

\* C26: in every reachable state, after the welcome message the message list
\* alternates strictly USER, AI, USER, AI, ..., each AI reply directly after
\* the user message it answers, for every order of sends and responses.
C26_StrictAlternation ==
    \A k \in 2..Len(state.messages) :
        state.messages[k].sender =
            IF k % 2 = 0 THEN SenderUser ELSE SenderAi

\* the texts handleSend is called with by a quick reaction, an example card
\* and a click on a variable
CustomTexts == {QuickReactionText, ExampleText, VariableText}

\* C27: handleSend called with a text that is empty or whitespace-only and
\* with no image attached changes nothing (messages, isLoading, isDeepDive,
\* inputText, the image preview, showExamples, keyError) and makes no
\* request; a send with a custom text leaves the typed inputText unchanged.
C27_BlankSendChangesNothing ==
    /\ \A f \in BOOLEAN :
          /\ (Trim(inputText) = <<>> /\ ~imagePreview) =>
                AfterHandleSend(Omitted, f) = Current
          /\ \A t \in {<<>>, <<" ">>, <<" ", " ">>} :
                ~imagePreview => AfterHandleSend(Given(t), f) = Current
          /\ \A t \in CustomTexts :
                /\ AfterHandleSend(Given(t), f).inputText = inputText
                /\ Len(AfterHandleSend(Given(t), f).requests) = Len(requests) + 1
    /\ \A i \in 1..Len(requests) :
          \/ Trim(requests[i].history[Len(requests[i].history)].text) # <<>>
          \/ requests[i].history[Len(requests[i].history)].image

\* a blank text is typed with no image attached and Enter can be pressed,
\* after a send with a custom text
C27_Witness ==
    /\ inputText = <<" ">>
    /\ ~imagePreview
    /\ ~state.isLoading
    /\ \E i \in 1..Len(requests) :
          requests[i].history[Len(requests[i].history)].text \in CustomTexts
    /\ AfterHandleSend(Omitted, FALSE).requests = requests

\* the segments of a rendering joined in their order
RECURSIVE Joined(_, _)
Joined(segs, i) ==
    IF i > Len(segs) THEN <<>> ELSE segs[i].part \o Joined(segs, i + 1)

\* a complete directive: '[PLOT:', a non-empty content without ']', and ']'
CompleteDirective(part) ==
    /\ Len(part) >= Len(PlotOpen) + 2
    /\ StartsAt(part, 1, PlotOpen)
    /\ part[Len(part)] = "]"
    /\ \A k \in (Len(PlotOpen) + 1)..(Len(part) - 1) : part[k] # "]"

\* C28: renderContent splits a text into non-empty segments whose
\* concatenation in order is the text, and a segment is rendered as a plot
\* exactly when it is a complete '[PLOT: ...]' directive, whatever the number
\* of its comma-separated fields; every other segment goes to the markdown
\* renderer unchanged.
C28_PlotExactlyForDirectives ==
    (Rendered /\ ~out.threw) =>
        /\ Joined(out.segs, 1) = text
        /\ \A i \in 1..Len(out.segs) :
              /\ out.segs[i].part # <<>>
              /\ out.segs[i].type = "plot" <=> CompleteDirective(out.segs[i].part)

\* the segments are non-empty and make up the text, and every plot is a
\* complete directive
SegmentsMakeUpText ==
    (Rendered /\ ~out.threw) =>
        /\ Joined(out.segs, 1) = text
        /\ \A i \in 1..Len(out.segs) :
              /\ out.segs[i].part # <<>>
              /\ out.segs[i].type = "plot" => CompleteDirective(out.segs[i].part)

\* C29: deep-dive mode is sticky and consistent with what is sent: isDeepDive
\* becomes true only through a send with forceDeepDive, stays true across the
\* later sends until the Back button sets it to false, and the flag passed to
\* getGeminiTutorResponse for a send is the value of isDeepDive in the state
\* right after the user message of that send was appended.
C29_DeepDiveSticky ==
    [][/\ (~state.isDeepDive /\ state'.isDeepDive) =>
              /\ Len(requests') = Len(requests) + 1
              /\ requests'[Len(requests')].forceDeepDive
       /\ (state.isDeepDive /\ ~state'.isDeepDive) =>
              /\ requests' = requests
              /\ state'.messages = state.messages
       /\ Len(requests') = Len(requests) + 1 =>
              /\ requests'[Len(requests')].isDeepDive = state'.isDeepDive
              /\ requests'[Len(requests')].forceDeepDive => state'.isDeepDive
              /\ state.isDeepDive => state'.isDeepDive]_vars

\* a send without forceDeepDive went out in deep-dive mode, after the send of
\* a variable click was answered
C29_Witness ==
    /\ state.isDeepDive
    /\ \E i \in 1..Len(requests) :
          /\ requests[i].forceDeepDive
          /\ requests[i].pc = "done"
          /\ \E j \in (i + 1)..Len(requests) :
                /\ ~requests[j].forceDeepDive
                /\ requests[j].isDeepDive
                /\ Len(requests[j].contents) = Len(requests[j].history) + 1

====
